---- MODULE Spec2Model ----
(***************************************************************************)
(* Model of the two services of the repository:                            *)
(*   ab-service      experiments, assignments, feature toggles             *)
(*   metrics-service events and the statistics computed over them          *)
(* Every database statement of a handler is one atomic step (the session   *)
(* runs at READ COMMITTED, so each statement sees what is committed when   *)
(* it runs); a handler that issues one write is one action.                *)
(***************************************************************************)
EXTENDS Integers, Sequences, FiniteSets, TLC

VARIABLES
    experiments,   \* table experiments: id -> [variants, traffic_split, is_active]
    issued,        \* ids uuid4 has handed out for experiments (never reused)
    assignments,   \* table assignments: [experiment_id, visitor_id, variant] -> number of rows
    toggles,       \* table feature_toggles: key -> enabled
    pc,            \* position of each in-flight assign request
    req,           \* query parameters of each in-flight assign request
    snap,          \* the Experiment object an assign request loaded
    firstTime,     \* the pair of the request had no row when the request began
    served,        \* variant of the first successful response for each pair
    resp,          \* the response produced by the last step, NoResp if none
    events,        \* table events
    now,           \* the clock, in ticks
    stats,         \* the last StatsResponse
    walk           \* inputs and result of a bucket walk

vars == <<experiments, issued, assignments, toggles, pc, req, snap,
          firstTime, served, resp, events, now, stats, walk>>

abVars == <<experiments, issued, assignments, toggles, pc, req, snap,
            firstTime, served>>
metricsVars == <<events, now, stats>>

----------------------------------------------------------------------------
(* Bounds and input domains *)

MaxAssignments == 2

E1 == "11111111-1111-4111-8111-111111111111"
E2 == "22222222-2222-4222-8222-222222222222"
ExpIds == {E1, E2}

V1 == "visitor-4324"
Visitors == {V1}

Procs == {"p1", "p2"}

ToggleKeys == {"show_banner"}
RequestedToggleKeys == {"show_banner", "missing"}

SplitEven   == [a |-> 50, b |-> 50]
SplitAllB   == [a |-> 0, b |-> 100]
SplitShort  == [a |-> 40, b |-> 40]
AB == <<"a", "b">>
AC == <<"a", "c">>
CreatePayloads ==
    {[variants |-> AB, traffic_split |-> SplitEven, is_active |-> TRUE],
     [variants |-> AB, traffic_split |-> SplitShort, is_active |-> TRUE],
     [variants |-> AC, traffic_split |-> SplitEven, is_active |-> TRUE]}
UpdatePayloads ==
    {[fields |-> {"traffic_split"}, variants |-> <<>>, traffic_split |-> SplitAllB, is_active |-> TRUE],
     [fields |-> {"traffic_split"}, variants |-> <<>>, traffic_split |-> SplitShort, is_active |-> TRUE],
     [fields |-> {"is_active"}, variants |-> <<>>, traffic_split |-> <<>>, is_active |-> FALSE]}
\* further payloads of the specification whose requests do not overlap
SeqUpdatePayloads ==
    {[fields |-> {"variants"}, variants |-> AC, traffic_split |-> <<>>, is_active |-> TRUE],
     [fields |-> {"variants", "traffic_split"}, variants |-> AC, traffic_split |-> SplitEven, is_active |-> TRUE],
     [fields |-> {"variants", "traffic_split"}, variants |-> AB, traffic_split |-> SplitEven, is_active |-> TRUE],
     [fields |-> {"is_active"}, variants |-> <<>>, traffic_split |-> <<>>, is_active |-> TRUE]}

Buckets == 100

----------------------------------------------------------------------------
(* Pure helpers of ab-service *)

RECURSIVE SumValues(_)
SumValues(d) ==
    IF DOMAIN d = {} THEN 0
    ELSE LET k == CHOOSE x \in DOMAIN d : TRUE
         IN d[k] + SumValues([x \in DOMAIN d \ {k} |-> d[x]])

SetOf(s) == {s[i] : i \in 1..Len(s)}

Get(d, k) == IF k \in DOMAIN d THEN d[k] ELSE 0

\* int(sha256(f"{visitor_id}:{experiment_id}").hexdigest(), 16) % 100,
\* tabulated for the identifiers of the model.
HashValue(visitor_id, experiment_id) ==
    CASE visitor_id = V1 /\ experiment_id = E1 -> 49
      [] visitor_id = V1 /\ experiment_id = E2 -> 50

\* the walk with the comparison hash_value <= cumulative
RECURSIVE WalkFromInclusive(_, _, _, _, _)
WalkFromInclusive(variants, traffic_split, hash_value, i, cumulative) ==
    IF i > Len(variants) THEN variants[Len(variants)]
    ELSE LET c == cumulative + Get(traffic_split, variants[i])
         IN IF hash_value <= c THEN variants[i]
            ELSE WalkFromInclusive(variants, traffic_split, hash_value, i + 1, c)

\* the walk falling back to the first variant
RECURSIVE WalkFromFallbackFirst(_, _, _, _, _)
WalkFromFallbackFirst(variants, traffic_split, hash_value, i, cumulative) ==
    IF i > Len(variants) THEN variants[1]
    ELSE LET c == cumulative + Get(traffic_split, variants[i])
         IN IF hash_value < c THEN variants[i]
            ELSE WalkFromFallbackFirst(variants, traffic_split, hash_value, i + 1, c)

RECURSIVE WalkFrom(_, _, _, _, _)
WalkFrom(variants, traffic_split, hash_value, i, cumulative) ==
    IF i > Len(variants) THEN variants[Len(variants)]
    ELSE LET c == cumulative + Get(traffic_split, variants[i])
         IN IF hash_value < c THEN variants[i]
            ELSE WalkFrom(variants, traffic_split, hash_value, i + 1, c)

BucketWalk(hash_value, variants, traffic_split) ==
    WalkFrom(variants, traffic_split, hash_value, 1, 0)

assign_variant_for(visitor_id, experiment_id, variants, traffic_split) ==
    BucketWalk(HashValue(visitor_id, experiment_id) % Buckets, variants, traffic_split)

\* the validation without the comparison of the key sets
CreateValidSumOnly(variants, traffic_split) ==
    SumValues(traffic_split) = 100

CreateValid(variants, traffic_split) ==
    /\ SumValues(traffic_split) = 100
    /\ DOMAIN traffic_split = SetOf(variants)

UpdateValid(fields, variants, traffic_split) ==
    /\ ({"traffic_split", "variants"} \subseteq fields
            => DOMAIN traffic_split = SetOf(variants))
    /\ ("traffic_split" \in fields => SumValues(traffic_split) = 100)

----------------------------------------------------------------------------
(* Responses *)

\* uuid4() of a new experiment: an id never handed out before
NewId == IF E1 \notin issued THEN {E1} ELSE ExpIds \ issued

NoResp == [op |-> "none"]
NoReq == [visitor_id |-> "", experiment_id |-> ""]
NoSnap == [variants |-> <<>>, traffic_split |-> <<>>]
NoVariant == ""

AllIdle == \A p \in Procs : pc[p] = "idle"

\* The rows of the assignments table are told apart by their generated id
\* only, so the table is the number of rows of each content.
VariantNames == {"a", "b", "c"}
RowKeys == [experiment_id : ExpIds, visitor_id : Visitors, variant : VariantNames]

RECURSIVE SumOver(_, _)
SumOver(f, S) ==
    IF S = {} THEN 0
    ELSE LET k == CHOOSE x \in S : TRUE IN f[k] + SumOver(f, S \ {k})

RowCount == SumOver(assignments, RowKeys)

\* select(Assignment).where(experiment_id == ..., visitor_id == ...)
RowsOf(experiment_id, visitor_id) ==
    {a \in RowKeys : /\ a.experiment_id = experiment_id
                     /\ a.visitor_id = visitor_id
                     /\ assignments[a] > 0}

NumRowsOf(experiment_id, visitor_id) ==
    SumOver(assignments, RowsOf(experiment_id, visitor_id))

\* the entry checks with the inactive check skipped for a visitor who has a row
EntryStatusKnownVisitor(experiment_id, visitor_id) ==
    IF experiment_id \notin DOMAIN experiments THEN 404
    ELSE IF ~experiments[experiment_id].is_active /\ RowsOf(experiment_id, visitor_id) = {}
    THEN 400
    ELSE 0

\* lines 134-139 of assign_variant: 404, 400, or 0 to go on
EntryStatus(experiment_id, visitor_id) ==
    IF experiment_id \notin DOMAIN experiments THEN 404
    ELSE IF ~experiments[experiment_id].is_active THEN 400
    ELSE 0

\* the delete without its WHERE clause
CascadeDeleteAll(experiment_id) == [a \in RowKeys |-> 0]

\* DELETE FROM assignments WHERE experiment_id = ..., and ON DELETE CASCADE
CascadeDelete(experiment_id) ==
    [a \in RowKeys |-> IF a.experiment_id = experiment_id THEN 0 ELSE assignments[a]]

\* ForeignKey("experiments.id") of Assignment.experiment_id, checked on insert
ForeignKeyHolds(experiment_id) == experiment_id \in DOMAIN experiments

\* a lookup that never finds the stored row
ScalarNeverFound(experiment_id, visitor_id) == "none"

\* scalar_one_or_none() of the lookup: "many" raises MultipleResultsFound
ScalarOneOrNone(experiment_id, visitor_id) ==
    IF NumRowsOf(experiment_id, visitor_id) > 1 THEN "many"
    ELSE IF RowsOf(experiment_id, visitor_id) = {} THEN "none"
    ELSE "one"

----------------------------------------------------------------------------
(* ab-service handlers *)

create_experiment(variants, traffic_split, is_active) ==
    /\ IF ~CreateValid(variants, traffic_split)
       THEN /\ resp' = [op |-> "create_experiment", status |-> 400,
                        variants |-> variants, traffic_split |-> traffic_split]
            /\ UNCHANGED <<experiments, issued>>
       ELSE \E id \in NewId :
            /\ experiments' = [e \in DOMAIN experiments \cup {id} |->
                                 IF e = id
                                 THEN [variants |-> variants,
                                       traffic_split |-> traffic_split,
                                       is_active |-> is_active]
                                 ELSE experiments[e]]
            /\ issued' = issued \cup {id}
            /\ resp' = [op |-> "create_experiment", status |-> 201,
                        variants |-> variants, traffic_split |-> traffic_split]
    /\ UNCHANGED <<assignments, toggles, pc, req, snap, firstTime, served>>
    /\ UNCHANGED <<metricsVars, walk>>

update_experiment(experiment_id, fields, variants, traffic_split, is_active) ==
    /\ IF experiment_id \notin DOMAIN experiments
       THEN /\ resp' = [op |-> "update_experiment", status |-> 404,
                        experiment_id |-> experiment_id]
            /\ UNCHANGED experiments
       ELSE IF ~UpdateValid(fields, variants, traffic_split)
       THEN /\ resp' = [op |-> "update_experiment", status |-> 400,
                        experiment_id |-> experiment_id]
            /\ UNCHANGED experiments
       ELSE /\ experiments' = [experiments EXCEPT ![experiment_id] =
                 [variants |-> IF "variants" \in fields THEN variants ELSE @.variants,
                  traffic_split |-> IF "traffic_split" \in fields
                                    THEN traffic_split ELSE @.traffic_split,
                  is_active |-> IF "is_active" \in fields
                                THEN is_active ELSE @.is_active]]
            /\ resp' = [op |-> "update_experiment", status |-> 200,
                        experiment_id |-> experiment_id]
    /\ UNCHANGED <<issued, assignments, toggles, pc, req, snap, firstTime, served>>
    /\ UNCHANGED <<metricsVars, walk>>

delete_experiment(experiment_id) ==
    /\ IF experiment_id \notin DOMAIN experiments
       THEN /\ resp' = [op |-> "delete_experiment", status |-> 404,
                        experiment_id |-> experiment_id]
            /\ UNCHANGED <<experiments, assignments>>
       ELSE /\ assignments' = CascadeDelete(experiment_id)
            /\ experiments' = [e \in DOMAIN experiments \ {experiment_id} |->
                                 experiments[e]]
            /\ resp' = [op |-> "delete_experiment", status |-> 204,
                        experiment_id |-> experiment_id]
    /\ UNCHANGED <<issued, toggles, pc, req, snap, firstTime, served>>
    /\ UNCHANGED <<metricsVars, walk>>

update_toggle(key, fields, enabled) ==
    /\ IF key \notin DOMAIN toggles
       THEN /\ resp' = [op |-> "update_toggle", status |-> 404]
            /\ UNCHANGED toggles
       ELSE /\ toggles' = [toggles EXCEPT ![key] =
                             IF "enabled" \in fields THEN enabled ELSE @]
            /\ resp' = [op |-> "update_toggle", status |-> 200]
    /\ UNCHANGED <<experiments, issued, assignments, pc, req, snap,
                   firstTime, served>>
    /\ UNCHANGED <<metricsVars, walk>>

AssignFailed(p, status) ==
    /\ resp' = [op |-> "assign", status |-> status,
                visitor_id |-> req[p].visitor_id,
                experiment_id |-> req[p].experiment_id,
                first_time |-> firstTime[p]]
    /\ pc' = [pc EXCEPT ![p] = "idle"]
    /\ req' = [req EXCEPT ![p] = NoReq]
    /\ snap' = [snap EXCEPT ![p] = NoSnap]
    /\ firstTime' = [firstTime EXCEPT ![p] = FALSE]
    /\ UNCHANGED served

AssignResponse(p, variant, is_new) ==
    /\ resp' = [op |-> "assign", status |-> 200,
                visitor_id |-> req[p].visitor_id,
                experiment_id |-> req[p].experiment_id,
                variant |-> variant, is_new |-> is_new,
                first_time |-> firstTime[p]]
    /\ served' = LET pair == <<req[p].experiment_id, req[p].visitor_id>>
                 IN IF served[pair] = NoVariant
                    THEN [served EXCEPT ![pair] = variant] ELSE served
    /\ pc' = [pc EXCEPT ![p] = "idle"]
    /\ req' = [req EXCEPT ![p] = NoReq]
    /\ snap' = [snap EXCEPT ![p] = NoSnap]
    /\ firstTime' = [firstTime EXCEPT ![p] = FALSE]

\* lines 134-139: load the experiment, 404 / 400
assign_variant(p, visitor_id, experiment_id) ==
    /\ pc[p] = "idle"
    /\ IF EntryStatus(experiment_id, visitor_id) # 0
       THEN /\ resp' = [op |-> "assign",
                        status |-> EntryStatus(experiment_id, visitor_id),
                        visitor_id |-> visitor_id, experiment_id |-> experiment_id,
                        first_time |-> RowsOf(experiment_id, visitor_id) = {}]
            /\ UNCHANGED <<pc, req, snap, firstTime>>
       ELSE /\ pc' = [pc EXCEPT ![p] = "lookup"]
            /\ req' = [req EXCEPT ![p] = [visitor_id |-> visitor_id,
                                          experiment_id |-> experiment_id]]
            /\ snap' = [snap EXCEPT ![p] =
                          [variants |-> experiments[experiment_id].variants,
                           traffic_split |-> experiments[experiment_id].traffic_split]]
            /\ firstTime' = [firstTime EXCEPT ![p] =
                               RowsOf(experiment_id, visitor_id) = {}]
            /\ resp' = NoResp
    /\ UNCHANGED <<experiments, issued, assignments, toggles, served>>
    /\ UNCHANGED <<metricsVars, walk>>

\* lines 142-155: look for the stored assignment
assign_lookup(p) ==
    /\ pc[p] = "lookup"
    /\ LET rows == RowsOf(req[p].experiment_id, req[p].visitor_id)
           existing == ScalarOneOrNone(req[p].experiment_id, req[p].visitor_id)
       IN IF existing = "many"
          THEN AssignFailed(p, 500)
          ELSE IF existing = "one"
          THEN AssignResponse(p, (CHOOSE a \in rows : TRUE).variant, FALSE)
          ELSE /\ pc' = [pc EXCEPT ![p] = "insert"]
               /\ resp' = NoResp
               /\ UNCHANGED <<req, snap, firstTime, served>>
    /\ UNCHANGED <<experiments, issued, assignments, toggles>>
    /\ UNCHANGED <<metricsVars, walk>>

\* lines 158-169: compute the variant, insert, commit
assign_insert(p) ==
    /\ pc[p] = "insert"
    /\ RowCount < MaxAssignments
    /\ LET variant == assign_variant_for(req[p].visitor_id, req[p].experiment_id,
                                         snap[p].variants, snap[p].traffic_split)
       IN IF ~ForeignKeyHolds(req[p].experiment_id)
          THEN /\ AssignFailed(p, 500)
               /\ UNCHANGED assignments
          ELSE /\ assignments' =
                     [assignments EXCEPT ![[experiment_id |-> req[p].experiment_id,
                                            visitor_id |-> req[p].visitor_id,
                                            variant |-> variant]] = @ + 1]
               /\ AssignResponse(p, variant, TRUE)
    /\ UNCHANGED <<experiments, issued, toggles>>
    /\ UNCHANGED <<metricsVars, walk>>

----------------------------------------------------------------------------
(* Specification of ab-service with overlapping requests *)

NoStats == [op |-> "none"]
NoWalk == [op |-> "none", variants |-> <<>>, traffic_split |-> <<>>,
           hash_value |-> 0, result |-> NoVariant]

Init ==
    /\ experiments = <<>>
    /\ issued = {}
    /\ assignments = [a \in RowKeys |-> 0]
    /\ toggles = [k \in ToggleKeys |-> FALSE]
    /\ pc = [p \in Procs |-> "idle"]
    /\ req = [p \in Procs |-> NoReq]
    /\ snap = [p \in Procs |-> NoSnap]
    /\ firstTime = [p \in Procs |-> FALSE]
    /\ served = [pair \in ExpIds \X Visitors |-> NoVariant]
    /\ resp = NoResp
    /\ events = <<>>
    /\ now = 0
    /\ stats = NoStats
    /\ walk = NoWalk

CreateExperiment ==
    \E payload \in CreatePayloads :
        create_experiment(payload.variants, payload.traffic_split, payload.is_active)

UpdateExperiment ==
    \E experiment_id \in ExpIds, payload \in UpdatePayloads :
        update_experiment(experiment_id, payload.fields, payload.variants,
                          payload.traffic_split, payload.is_active)

DeleteExperiment == \E experiment_id \in ExpIds : delete_experiment(experiment_id)

UpdateToggle ==
    \E key \in RequestedToggleKeys, fields \in SUBSET {"enabled"}, enabled \in BOOLEAN :
        update_toggle(key, fields, enabled)

AssignStart ==
    \E p \in Procs, visitor_id \in Visitors, experiment_id \in ExpIds :
        assign_variant(p, visitor_id, experiment_id)

AssignLookup == \E p \in Procs : assign_lookup(p)

AssignInsert == \E p \in Procs : assign_insert(p)

Next ==
    \/ CreateExperiment
    \/ UpdateExperiment
    \/ DeleteExperiment
    \/ UpdateToggle
    \/ AssignStart
    \/ AssignLookup
    \/ AssignInsert

Spec == Init /\ [][Next]_vars

(* Specification of ab-service whose requests do not overlap: a request    *)
(* begins only when no assign request is in flight.                        *)

SeqUpdateExperiment ==
    \E experiment_id \in ExpIds, payload \in SeqUpdatePayloads :
        update_experiment(experiment_id, payload.fields, payload.variants,
                          payload.traffic_split, payload.is_active)

NextSeq ==
    \/ AllIdle /\ CreateExperiment
    \/ AllIdle /\ UpdateExperiment
    \/ AllIdle /\ SeqUpdateExperiment
    \/ AllIdle /\ DeleteExperiment
    \/ AllIdle /\ UpdateToggle
    \/ AllIdle /\ AssignStart
    \/ AssignLookup
    \/ AssignInsert

SpecSeq == Init /\ [][NextSeq]_vars

----------------------------------------------------------------------------
(* Specification of the bucket walk of _assign_variant on its own: the     *)
(* inputs are any variants list, any traffic_split over names of the list  *)
(* and any hash_value.                                                     *)

WalkLens == {2, 3}
VariantSeqs == UNION {[1..n -> VariantNames] : n \in WalkLens}
SplitValues == {-20, 0, 40, 50, 60, 100}
SplitDicts == UNION {[K -> SplitValues] : K \in SUBSET VariantNames \ {{}}}
HashValues == 0..(Buckets - 1)

SplitsFor(vs) == {d \in SplitDicts : DOMAIN d \subseteq SetOf(vs)}

InitWalk ==
    /\ experiments = <<>>
    /\ issued = {}
    /\ assignments = [a \in RowKeys |-> 0]
    /\ toggles = [k \in ToggleKeys |-> FALSE]
    /\ pc = [p \in Procs |-> "idle"]
    /\ req = [p \in Procs |-> NoReq]
    /\ snap = [p \in Procs |-> NoSnap]
    /\ firstTime = [p \in Procs |-> FALSE]
    /\ served = [pair \in ExpIds \X Visitors |-> NoVariant]
    /\ resp = NoResp
    /\ events = <<>>
    /\ now = 0
    /\ stats = NoStats
    /\ \E vs \in VariantSeqs, h \in HashValues :
          \E ts \in SplitsFor(vs) :
              walk = [op |-> "input", variants |-> vs, traffic_split |-> ts,
                      hash_value |-> h, result |-> NoVariant]

RunWalk ==
    /\ walk.op = "input"
    /\ walk' = [walk EXCEPT !.op = "done",
                            !.result = BucketWalk(walk.hash_value, walk.variants,
                                                  walk.traffic_split)]
    /\ UNCHANGED <<abVars, resp, metricsVars>>

NextWalk == RunWalk

SpecWalk == InitWalk /\ [][NextWalk]_vars

----------------------------------------------------------------------------
(* metrics-service.  The events table is the number of rows of each        *)
(* content [visitor_id, experiment_id, variant, event_type, created_at];   *)
(* rows of equal content differ in their generated id only.  Time is in    *)
(* ticks; a rate is held in tenths of a percent (300 is 30.0).             *)

MaxEvents == 4
TicksPerHour == 2
WindowHours == 24
Window == WindowHours * TicksPerHour

Null == "<null>"

EventCount == SumOver(events, DOMAIN events)

HourOf(t) == t - (t % TicksPerHour)

\* db.add(event); commit
InsertEvent(row) ==
    IF row \in DOMAIN events
    THEN [events EXCEPT ![row] = @ + 1]
    ELSE [k \in DOMAIN events \cup {row} |-> IF k = row THEN 1 ELSE events[k]]

create_event(visitor_id, experiment_id, variant, event_type) ==
    /\ EventCount < MaxEvents
    /\ events' = InsertEvent([visitor_id |-> visitor_id, experiment_id |-> experiment_id,
                              variant |-> variant, event_type |-> event_type,
                              created_at |-> now])
    /\ stats' = NoStats
    /\ UNCHANGED <<now, abVars, resp, walk>>

\* base_filter
BaseFilter(experiment_id) ==
    {k \in DOMAIN events : experiment_id = Null \/ k.experiment_id = experiment_id}

\* func.count(Event.id) over the rows of the given contents
CountIds(S) == SumOver(events, S)

\* func.count(func.distinct(Event.visitor_id)) counted as count(Event.visitor_id)
CountVisitorRows(S) == SumOver(events, S)

\* func.count(func.distinct(Event.visitor_id))
CountDistinctVisitors(S) == Cardinality({k.visitor_id : k \in S})

\* round(numerator / denominator * 100, 1), in tenths, ties to even
Round1(numerator, denominator) ==
    LET n == 1000 * numerator
        q == n \div denominator
        r == n % denominator
    IN IF 2 * r > denominator \/ (2 * r = denominator /\ q % 2 = 1) THEN q + 1 ELSE q

Rate(part, views) == IF views # 0 THEN Round1(part, views) ELSE 0

EventsByType(experiment_id) ==
    LET M == BaseFilter(experiment_id)
    IN [t \in {k.event_type : k \in M} |-> CountIds({k \in M : k.event_type = t})]

EventsByVariant(experiment_id) ==
    LET M == {k \in BaseFilter(experiment_id) : k.variant # Null}
    IN [v \in {k.variant : k \in M} |-> CountIds({k \in M : k.variant = v})]

VariantBreakdown(experiment_id) ==
    LET M == {k \in BaseFilter(experiment_id) : k.variant # Null}
    IN {[variant |-> g[1], event_type |-> g[2],
         count |-> CountIds({k \in M : k.variant = g[1] /\ k.event_type = g[2]})] :
            g \in {<<k.variant, k.event_type>> : k \in M}}

ConversionByVariant(experiment_id) ==
    [variant_name \in DOMAIN EventsByVariant(experiment_id) |->
        LET v_filter == {k \in BaseFilter(experiment_id) : k.variant = variant_name}
            views == CountDistinctVisitors({k \in v_filter : k.event_type = "page_view"})
            clicks == CountDistinctVisitors({k \in v_filter : k.event_type = "click"})
            submits == CountDistinctVisitors({k \in v_filter : k.event_type = "form_submit"})
        IN [views |-> views, clicks |-> clicks, submissions |-> submits,
            click_rate |-> Rate(clicks, views),
            submit_rate |-> Rate(submits, views)]]

\* the window with the comparison created_at >= NOW() - INTERVAL '24 hours'
TimelineWindowInclusive == {k \in DOMAIN events : k.created_at >= now - Window}

\* WHERE created_at > NOW() - INTERVAL '24 hours'
TimelineWindow == {k \in DOMAIN events : k.created_at > now - Window}

\* GROUP BY hour, variant, event_type
TimelineRows ==
    {[hour |-> g[1], variant |-> g[2], event_type |-> g[3],
      count |-> CountIds({k \in TimelineWindow : /\ HourOf(k.created_at) = g[1]
                                                 /\ k.variant = g[2]
                                                 /\ k.event_type = g[3]})] :
        g \in {<<HourOf(k.created_at), k.variant, k.event_type>> : k \in TimelineWindow}}

\* ORDER BY hour.  The query fixes no order among the rows of one hour, so
\* the timeline is the sequence, by hour, of the sets of rows of each hour.
RECURSIVE OrderedByHour(_)
OrderedByHour(rows) ==
    IF rows = {} THEN <<>>
    ELSE LET first == {x \in rows : \A y \in rows : x.hour <= y.hour}
         IN <<first>> \o OrderedByHour(rows \ first)

get_stats(experiment_id) ==
    /\ stats' = [op |-> "get_stats",
                 experiment_id |-> experiment_id,
                 total_events |-> CountIds(BaseFilter(experiment_id)),
                 unique_visitors |-> CountDistinctVisitors(BaseFilter(experiment_id)),
                 events_by_type |-> EventsByType(experiment_id),
                 events_by_variant |-> EventsByVariant(experiment_id),
                 variant_breakdown |-> VariantBreakdown(experiment_id),
                 conversion_by_variant |-> ConversionByVariant(experiment_id),
                 timeline |-> OrderedByHour(TimelineRows)]
    /\ UNCHANGED <<events, now, abVars, resp, walk>>

\* the server clock moves on
ClockValues == {0, 1, Window, Window + 1, Window + TicksPerHour}

Advance ==
    /\ \E t \in ClockValues : t > now /\ now' = t
    /\ stats' = NoStats
    /\ UNCHANGED <<events, abVars, resp, walk>>

StatsFilters == {Null, E1}

GetStats == \E experiment_id \in StatsFilters : get_stats(experiment_id)

(* Specification of the statistics: events of many shapes, no clock *)

V2 == "visitor-2"
V3 == "visitor-3"
StatsEventInputs ==
    {<<V1, E1, "A", "page_view">>, <<V2, E1, "A", "page_view">>, <<V3, E1, "A", "page_view">>,
     <<V1, E1, "A", "click">>, <<V2, E1, "A", "click">>,
     <<V1, E1, "A", "form_submit">>,
     <<V1, E1, "A", "scroll">>,
     <<V1, E1, "B", "page_view">>, <<V2, E1, "B", "click">>,
     <<V1, E2, "A", "page_view">>, <<V2, Null, "A", "click">>,
     <<V1, E1, Null, "page_view">>}

RecordEvent ==
    \E e \in StatsEventInputs : create_event(e[1], e[2], e[3], e[4])

NextStats == RecordEvent \/ GetStats

SpecStats == Init /\ [][NextStats]_vars

(* Specification of the timeline: events of few shapes, and the clock *)

TimelineEventInputs ==
    {<<V1, E1, "A", "page_view">>, <<V1, E2, "A", "page_view">>,
     <<V1, E1, "B", "click">>, <<V1, Null, Null, "click">>}

RecordTimelineEvent ==
    \E e \in TimelineEventInputs : create_event(e[1], e[2], e[3], e[4])

NextTimeline == RecordTimelineEvent \/ Advance \/ GetStats

SpecTimeline == Init /\ [][NextTimeline]_vars

----------------------------------------------------------------------------
(* Properties of ab-service *)

Pairs == ExpIds \X Visitors

StoreUnchanged == UNCHANGED <<experiments, issued, assignments, toggles>>

\* C1: in every reachable state there is at most one Assignment row per
\* (experiment_id, visitor_id) pair, whatever the interleaving of the
\* lookup and insert steps of concurrent assign requests.
C1_AtMostOneRowPerPair ==
    \A pair \in Pairs : NumRowsOf(pair[1], pair[2]) <= 1

\* C2: every assign request that began when its pair had no row, on an
\* experiment that exists and is active, gets a successful response, and
\* all of them carry the same variant (that of the first successful
\* response for the pair).
C2_FirstTimeCallersAgree ==
    (/\ resp.op = "assign"
     /\ resp.first_time
     /\ resp.status \notin {404, 400}
     /\ resp.experiment_id \in DOMAIN experiments)
        => /\ resp.status = 200
           /\ resp.variant = served[<<resp.experiment_id, resp.visitor_id>>]

\* C3: when requests do not overlap, the first successful assign for a pair
\* has is_new = TRUE, every later successful one has is_new = FALSE, and all
\* of them return the variant of the first, whatever update_experiment did
\* to the experiment in between.
C3_IdempotentAssign ==
    [][(resp'.op = "assign" /\ resp'.status = 200) =>
          LET pair == <<resp'.experiment_id, resp'.visitor_id>>
          IN /\ resp'.is_new = (served[pair] = NoVariant)
             /\ (served[pair] # NoVariant => resp'.variant = served[pair])
             /\ SumOver(assignments', {a \in RowKeys : /\ a.experiment_id = pair[1]
                                                       /\ a.visitor_id = pair[2]}) = 1]_vars

\* C3 witness: a later call answered is_new = FALSE with the stored variant
\* although the experiment as it is now would put the visitor elsewhere.
C3_Witness ==
    /\ resp.op = "assign" /\ resp.status = 200 /\ ~resp.is_new
    /\ resp.experiment_id \in DOMAIN experiments
    /\ resp.variant # BucketWalk(HashValue(resp.visitor_id, resp.experiment_id),
                                 experiments[resp.experiment_id].variants,
                                 experiments[resp.experiment_id].traffic_split)

\* The running total of the splits of the variants before position i.
RECURSIVE CumulativeBefore(_, _, _)
CumulativeBefore(vs, ts, i) ==
    IF i = 1 THEN 0 ELSE CumulativeBefore(vs, ts, i - 1) + ts[vs[i - 1]]

InBucket(w, i) ==
    /\ CumulativeBefore(w.variants, w.traffic_split, i) <= w.hash_value
    /\ w.hash_value < CumulativeBefore(w.variants, w.traffic_split, i)
                          + w.traffic_split[w.variants[i]]

WalkPrecondition(w) ==
    /\ w.op = "done"
    /\ DOMAIN w.traffic_split = {w.variants[i] : i \in DOMAIN w.variants}
    /\ SumOver(w.traffic_split, DOMAIN w.traffic_split) = 100

ExactlyOneBucket(w) ==
    \E i \in DOMAIN w.variants :
        /\ InBucket(w, i)
        /\ w.result = w.variants[i]
        /\ \A j \in DOMAIN w.variants : InBucket(w, j) => j = i

\* C4 as stated: for keys equal to the variant set and values summing to
\* 100, every hash_value lies in the bucket of exactly one variant, which is
\* the one returned; hash_value = cumulative - 1 returns variant i and
\* hash_value = cumulative returns the variant after it.
C4_Original ==
    WalkPrecondition(walk) =>
        /\ ExactlyOneBucket(walk)
        /\ \A i \in 1..(Len(walk.variants) - 1) :
              LET c == CumulativeBefore(walk.variants, walk.traffic_split, i + 1)
              IN /\ (walk.hash_value = c - 1 => walk.result = walk.variants[i])
                 /\ (walk.hash_value = c => walk.result = walk.variants[i + 1])

\* C4 amended: when moreover no split value is negative, every hash_value
\* lies in the bucket of exactly one variant, which is the one returned; for
\* a variant i with a split above 0, hash_value = cumulative - 1 returns
\* variant i and hash_value = cumulative returns the next variant whose
\* split is above 0.
C4_BucketCoverage ==
    (/\ WalkPrecondition(walk)
     /\ \A k \in DOMAIN walk.traffic_split : walk.traffic_split[k] >= 0) =>
        /\ ExactlyOneBucket(walk)
        /\ \A i \in DOMAIN walk.variants :
              walk.traffic_split[walk.variants[i]] > 0 =>
                 LET c == CumulativeBefore(walk.variants, walk.traffic_split, i)
                            + walk.traffic_split[walk.variants[i]]
                 IN /\ (walk.hash_value = c - 1 => walk.result = walk.variants[i])
                    /\ (walk.hash_value = c =>
                          \E j \in (i + 1)..Len(walk.variants) :
                             /\ walk.traffic_split[walk.variants[j]] > 0
                             /\ walk.result = walk.variants[j]
                             /\ \A k \in (i + 1)..(j - 1) :
                                   walk.traffic_split[walk.variants[k]] = 0)

\* C4 witness: with a 50/50 split, hash_value 50 went to the second variant.
C4_Witness ==
    /\ walk.op = "done"
    /\ walk.variants = AB /\ walk.traffic_split = SplitEven
    /\ walk.hash_value = 50 /\ walk.result = "b"

\* The running total after position i, a variant without an entry adding 0.
RECURSIVE RunningTotal(_, _, _)
RunningTotal(vs, ts, i) ==
    IF i = 0 THEN 0
    ELSE RunningTotal(vs, ts, i - 1)
            + (IF vs[i] \in DOMAIN ts THEN ts[vs[i]] ELSE 0)

\* C11: when no running total of the walk exceeds hash_value, the walk
\* returns the last variant of the list; and whatever the inputs, the
\* variant returned is one of the list.
C11_FallbackToLast ==
    walk.op = "done" =>
        /\ (\A i \in DOMAIN walk.variants :
                RunningTotal(walk.variants, walk.traffic_split, i) <= walk.hash_value)
              => walk.result = walk.variants[Len(walk.variants)]
        /\ \E i \in DOMAIN walk.variants : walk.result = walk.variants[i]

\* C11 witness: the second variant has no entry in the split, the total 40
\* stays at or below hash_value, and the last variant was returned.
C11_Witness ==
    /\ walk.op = "done"
    /\ walk.variants = AB
    /\ DOMAIN walk.traffic_split = {"a"} /\ walk.traffic_split["a"] = 40
    /\ walk.hash_value >= 40
    /\ walk.result = "b"

\* C5: every stored experiment has split keys equal to its variant set and
\* split values summing to 100, after any creates and updates.
C5_ExperimentInvariant ==
    \A e \in DOMAIN experiments :
        /\ DOMAIN experiments[e].traffic_split = SetOf(experiments[e].variants)
        /\ SumOver(experiments[e].traffic_split,
                   DOMAIN experiments[e].traffic_split) = 100

\* C6: a create_experiment whose split does not sum to 100, or whose split
\* keys differ from the variant set, answers 400 and changes no table.
C6_InvalidCreateRejected ==
    [][(/\ resp'.op = "create_experiment"
        /\ \/ SumOver(resp'.traffic_split, DOMAIN resp'.traffic_split) # 100
           \/ DOMAIN resp'.traffic_split # {resp'.variants[i] : i \in DOMAIN resp'.variants})
          => /\ resp'.status = 400
             /\ StoreUnchanged]_vars

\* C6 witness: a create whose split sums to 100 but whose keys differ from
\* the variants was rejected.
C6_Witness ==
    /\ resp.op = "create_experiment" /\ resp.status = 400
    /\ SumOver(resp.traffic_split, DOMAIN resp.traffic_split) = 100
    /\ DOMAIN resp.traffic_split # SetOf(resp.variants)

\* C7: an assign for an experiment that does not exist answers 404, for one
\* that exists but is inactive answers 400 (also when the visitor already
\* has a stored assignment); in both cases no table changes; a request is
\* let through only when the experiment exists and is active.
C7_AssignPreconditions ==
    [][/\ \A p \in Procs : (pc[p] = "idle" /\ pc'[p] = "lookup") =>
              (/\ req'[p].experiment_id \in DOMAIN experiments
               /\ experiments[req'[p].experiment_id].is_active)
       /\ (resp'.op = "assign" /\ resp'.status = 404) =>
              (/\ resp'.experiment_id \notin DOMAIN experiments
               /\ StoreUnchanged)
       /\ (resp'.op = "assign" /\ resp'.status = 400) =>
              (/\ resp'.experiment_id \in DOMAIN experiments
               /\ ~experiments[resp'.experiment_id].is_active
               /\ StoreUnchanged)]_vars

\* C7 witness: a visitor holding a stored assignment was answered 400.
C7_Witness ==
    /\ resp.op = "assign" /\ resp.status = 400
    /\ NumRowsOf(resp.experiment_id, resp.visitor_id) > 0

\* C10: the number of rows of a given content never goes down except by a
\* successful delete_experiment of the row's experiment; that delete leaves
\* no row of the experiment and leaves the rows of the others alone; no row
\* ever references an experiment that is not stored.
C10_AssignmentsFrame ==
    /\ [](\A a \in RowKeys : assignments[a] > 0 => a.experiment_id \in DOMAIN experiments)
    /\ [][/\ \A a \in RowKeys :
                 (assignments'[a] < assignments[a]) =>
                     (/\ resp'.op = "delete_experiment"
                      /\ resp'.status = 204
                      /\ resp'.experiment_id = a.experiment_id)
          /\ (resp'.op = "delete_experiment" /\ resp'.status = 204) =>
                 (\A a \in RowKeys :
                     assignments'[a] = IF a.experiment_id = resp'.experiment_id
                                       THEN 0 ELSE assignments[a])
          /\ (resp'.op \in {"update_experiment", "update_toggle", "create_experiment"})
                 => (assignments' = assignments)]_vars

\* C10 witness: an experiment that had an assignment was deleted while the
\* other experiment keeps its row.
C10_Witness ==
    /\ resp.op = "delete_experiment" /\ resp.status = 204
    /\ \E v \in Visitors : served[<<resp.experiment_id, v>>] # NoVariant
    /\ \E a \in RowKeys : assignments[a] > 0

----------------------------------------------------------------------------
(* Properties of metrics-service *)

Matches(k, filter) == filter = Null \/ k.experiment_id = filter

VisitorsWith(filter, variant, event_type) ==
    {k.visitor_id : k \in {x \in DOMAIN events : /\ Matches(x, filter)
                                                 /\ x.variant = variant
                                                 /\ x.event_type = event_type}}

\* r tenths of a percent is part/views*100 rounded to one decimal
NearestTenth(r, part, views) ==
    LET d == r * views - 1000 * part
    IN 2 * (IF d < 0 THEN -d ELSE d) <= views

\* C8: conversion_by_variant has an entry for exactly the variants of
\* events_by_variant (the non-null variants of the events under the filter);
\* views, clicks and submissions are the numbers of distinct visitors with a
\* page_view, click and form_submit event of the variant under the filter;
\* the rates are part/views*100 rounded to one decimal, and 0 when views = 0.
C8_ConversionByVariant ==
    stats.op = "get_stats" =>
        LET f == stats.experiment_id
            conv == stats.conversion_by_variant
        IN /\ DOMAIN conv = DOMAIN stats.events_by_variant
           /\ DOMAIN conv = {k.variant : k \in {x \in DOMAIN events :
                                                   Matches(x, f) /\ x.variant # Null}}
           /\ \A v \in DOMAIN conv :
                 /\ conv[v].views = Cardinality(VisitorsWith(f, v, "page_view"))
                 /\ conv[v].clicks = Cardinality(VisitorsWith(f, v, "click"))
                 /\ conv[v].submissions = Cardinality(VisitorsWith(f, v, "form_submit"))
                 /\ (conv[v].views = 0 =>
                        conv[v].click_rate = 0 /\ conv[v].submit_rate = 0)
                 /\ (conv[v].views > 0 =>
                        /\ NearestTenth(conv[v].click_rate, conv[v].clicks, conv[v].views)
                        /\ NearestTenth(conv[v].submit_rate, conv[v].submissions,
                                        conv[v].views))

\* C8 witness: under the filter, a variant with 3 viewers and 1 clicker got
\* click_rate 33.3.
C8_Witness ==
    /\ stats.op = "get_stats"
    /\ stats.experiment_id = E1
    /\ \E v \in DOMAIN stats.conversion_by_variant :
          /\ stats.conversion_by_variant[v].views = 3
          /\ stats.conversion_by_variant[v].clicks = 1
          /\ stats.conversion_by_variant[v].click_rate = 333

Recent(k) == now - k.created_at < Window

TimelineAll == UNION {stats.timeline[i] : i \in DOMAIN stats.timeline}

\* C9: the timeline has one row per (hour, variant, event_type) of the
\* events less than 24 hours old, whatever the experiment filter, each with
\* the number of those events; no other row; the hours go up along it.
C9_Timeline ==
    stats.op = "get_stats" =>
        /\ \A i \in DOMAIN stats.timeline :
              /\ stats.timeline[i] # {}
              /\ \A r1, r2 \in stats.timeline[i] : r1.hour = r2.hour
        /\ \A i, j \in DOMAIN stats.timeline :
              i < j => \A r1 \in stats.timeline[i], r2 \in stats.timeline[j] :
                          r1.hour < r2.hour
        /\ \A r \in TimelineAll :
              /\ r.count > 0
              /\ r.count = SumOver(events,
                    {k \in DOMAIN events :
                        /\ Recent(k)
                        /\ (k.created_at \div TicksPerHour) * TicksPerHour = r.hour
                        /\ k.variant = r.variant
                        /\ k.event_type = r.event_type})
        /\ \A k \in DOMAIN events :
              Recent(k) =>
                 \E r \in TimelineAll :
                    /\ r.hour = (k.created_at \div TicksPerHour) * TicksPerHour
                    /\ r.variant = k.variant
                    /\ r.event_type = k.event_type
        /\ \A r1, r2 \in TimelineAll :
              (r1.hour = r2.hour /\ r1.variant = r2.variant
                 /\ r1.event_type = r2.event_type) => r1 = r2

\* C9 witness: a filtered request whose timeline spans two hours and counts
\* an event of no experiment, while an event 24 hours old or older is left out.
C9_Witness ==
    /\ stats.op = "get_stats"
    /\ stats.experiment_id = E1
    /\ Len(stats.timeline) >= 2
    /\ \E r \in TimelineAll : r.variant = Null
    /\ \E k \in DOMAIN events : ~Recent(k)

====
